---- MODULE Spec2Model ----
(***************************************************************************)
(* Model of the conversational workflow of the AI product recommender:     *)
(* the schema merger (flattenRequirements, mergeRequirementsWithSchema),   *)
(* the two self-healing backend operations (classifyIntent,                *)
(* generateAgentResponse) and the message handler of the AIRecommender     *)
(* component (handleSendMessage, handleShowSummaryAndProceed,              *)
(* performAnalysis, streamAssistantMessage).                               *)
(*                                                                         *)
(* JavaScript objects are functions from key strings to values; a value    *)
(* that may be null is a sequence of length at most one (<<>> is null).    *)
(* Requirement field names are ordinary schema field names: none of them   *)
(* is "mandatoryRequirements", "optionalRequirements" or the name of a     *)
(* member of Object.prototype.                                             *)
(*                                                                         *)
(* An await is a point where the invocation waits: an action runs the      *)
(* handler from one await to the next one that is not yet settled. Every   *)
(* site of the handler is named by the line of its await in the component  *)
(* ("L325" is the classifyIntent call of line 325).                        *)
(*                                                                         *)
(* Spec is the session of a page opened without an input parameter,        *)
(* SpecAuto the session with one (the auto-submit effect), SpecPure the    *)
(* schema merger applied to drawn inputs.                                  *)
(***************************************************************************)
EXTENDS Integers, Sequences, FiniteSets, TLC

\* ------------------------------------------------------------------ bounds
\* Number of requirement field names the inputs are drawn from.
NumKeys == 2

KeyNames == <<"pressureRange", "outputSignal", "accuracy", "material">>
Keys == {KeyNames[i] : i \in 1..NumKeys}

\* JavaScript null as a leaf value, the empty string, and the non-empty
\* values. The code tests a value only against null and "", so that the
\* drawn inputs give each place of a provided object one non-empty value of
\* its own.
Null == "<null>"
Empty == ""
MandatoryVal == "0-100 bar"
OptionalVal == "0-250 bar"
ExtraVal == "4-20mA"
NonEmptyVals == {MandatoryVal, OptionalVal, ExtraVal}
Leaves == NonEmptyVals \cup {Null, Empty}

MandatoryKey == "mandatoryRequirements"
OptionalKey == "optionalRequirements"
GroupKeys == {MandatoryKey, OptionalKey}

\* Nullable values.
None == <<>>
Some(x) == <<x>>
IsSome(o) == Len(o) = 1
Get(o) == o[1]

\* All objects with keys among ks and values among vs.
Objects(ks, vs) == UNION {[d -> vs] : d \in SUBSET ks}
EmptyObject == [k \in {} |-> Empty]

\* { ...a, ...b }
Spread(a, b) ==
  [k \in (DOMAIN a) \cup (DOMAIN b) |-> IF k \in DOMAIN b THEN b[k] ELSE a[k]]

\* ------------------------------------------------------- schema merger
\* process(reqs) of flattenRequirements: copy the non-null, non-empty leaves
\* of one group into flat (a later write replaces an earlier one).
process(flat, reqs) ==
  IF ~IsSome(reqs) THEN flat
  ELSE LET g == Get(reqs)
           kept == {k \in DOMAIN g : g[k] # Null /\ g[k] # Empty}
       IN  [k \in (DOMAIN flat) \cup kept |-> IF k \in kept THEN g[k] ELSE flat[k]]

\* The group `name` of a provided object: null when the object lacks it.
GroupOf(provided, name) ==
  IF name \in DOMAIN provided THEN Some(provided[name]) ELSE None

\* Mutant: the top-level extras are never copied.
flattenRequirements_NoExtras(provided) ==
  IF ~IsSome(provided) THEN EmptyObject
  ELSE process(process(EmptyObject, GroupOf(Get(provided), MandatoryKey)),
               GroupOf(Get(provided), OptionalKey))

\* Mutant: a top-level extra replaces a group's value (last write wins).
flattenRequirements_LastWrite(provided) ==
  IF ~IsSome(provided) THEN EmptyObject
  ELSE LET p == Get(provided)
           groups == process(process(EmptyObject, GroupOf(p, MandatoryKey)),
                             GroupOf(p, OptionalKey))
           extras == {k \in (DOMAIN p) \ GroupKeys : p[k] # Null /\ p[k] # Empty}
       IN  [k \in (DOMAIN groups) \cup extras |->
              IF k \in extras THEN p[k] ELSE groups[k]]

\* flattenRequirements(provided): the mandatory group, then the optional
\* group, then every top-level key outside the groups that flat lacks so far.
flattenRequirements(provided) ==
  IF ~IsSome(provided) THEN EmptyObject
  ELSE LET p == Get(provided)
           groups == process(process(EmptyObject, GroupOf(p, MandatoryKey)),
                             GroupOf(p, OptionalKey))
           extras == {k \in (DOMAIN p) \ GroupKeys :
                        k \notin DOMAIN groups /\ p[k] # Null /\ p[k] # Empty}
       IN  [k \in (DOMAIN groups) \cup extras |->
              IF k \in extras THEN p[k] ELSE groups[k]]

\* The keys of one group of a schema; a schema without the group gives none.
SchemaKeys(schema, name) ==
  IF name \in DOMAIN schema THEN DOMAIN schema[name] ELSE {}

\* Mutant: the optional group is forgotten.
mergeRequirementsWithSchema_MandatoryOnly(provided, schema) ==
  IF ~IsSome(schema) THEN [threw |-> TRUE, value |-> EmptyObject]
  ELSE LET allKeys == SchemaKeys(Get(schema), MandatoryKey)
       IN  [threw |-> FALSE,
            value |-> [k \in (DOMAIN provided) \cup allKeys |->
                         IF k \in DOMAIN provided THEN provided[k] ELSE Empty]]

\* mergeRequirementsWithSchema(provided, schema): provided verbatim plus ""
\* for each schema key it lacks. Reading a group of a null schema throws a
\* TypeError (threw), as schema.mandatoryRequirements does.
mergeRequirementsWithSchema(provided, schema) ==
  IF ~IsSome(schema) THEN [threw |-> TRUE, value |-> EmptyObject]
  ELSE LET allKeys == SchemaKeys(Get(schema), MandatoryKey)
                        \cup SchemaKeys(Get(schema), OptionalKey)
       IN  [threw |-> FALSE,
            value |-> [k \in (DOMAIN provided) \cup allKeys |->
                         IF k \in DOMAIN provided THEN provided[k] ELSE Empty]]

\* ------------------------------------------------- workflow: data domains
\* Number of messages accepted in one session.
MaxTurns == 2
\* Number of characters of every non-empty assistant text.
TextLen == 2
\* Number of handler invocations that can be in flight at once.
MaxInFlight == 2
Procs == 1..MaxInFlight

Steps == {"greeting", "initialInput", "awaitMissingInfo", "awaitOptional",
          "awaitAdvanced", "confirmAfterMissingInfo", "showSummary",
          "finalAnalysis", "analysisError", "default"}
Intents == {"greeting", "knowledgeQuestion", "productRequirements", "workflow",
            "chitchat", "other"}
\* IntentClassificationResult.nextStep (null is None).
ClassifierSteps == {"greeting", "initialInput", "awaitOptional", "awaitAdvanced",
                    "showSummary", "finalAnalysis"}
\* AgentResponse.nextStep values the backend answers with (null is None).
AgentSteps == {"awaitOptional", "awaitAdvanced", "showSummary", "finalAnalysis"}

\* A text is a sequence of characters; the characters of the text named tag.
Text(tag) == [i \in 1..TextLen |-> <<tag, i>>]
AgentText == Text("agent")
Apology == Text("I'm having trouble connecting to my brain right now.")
AlertMessage == Text("validationAlert.message")
SummaryIntro == Text("Here's a summary of your requirements:")
StartingAnalysis == Text("Starting product analysis...")
SummaryError == Text("Error generating summary. Please try again.")
GenericError == Text("I'm sorry, there was an error processing your message.")
SummaryContent == Text("structuredRequirements")

\* What the user types: strings are sequences of characters.
InputSkip == <<"s", "k", "i", "p">>
InputProceed == <<" ", "P", "r", "o", "c", "e", "e", "d">>
InputRunAgain == <<"r", "u", "n", " ", "a", "g", "a", "i", "n">>
InputFree == <<"0", "-", "1", "0", "0", " ", "b", "a", "r">>
UserInputs == {InputSkip, InputProceed, InputRunAgain, InputFree}

IsSpace(ch) == ch = " "
RECURSIVE TrimStart(_)
TrimStart(str) ==
  IF str # <<>> /\ IsSpace(Head(str)) THEN TrimStart(Tail(str)) ELSE str
RECURSIVE TrimEnd(_)
TrimEnd(str) ==
  IF str # <<>> /\ IsSpace(str[Len(str)]) THEN TrimEnd(SubSeq(str, 1, Len(str) - 1))
  ELSE str
\* String.prototype.trim
Trim(str) == TrimEnd(TrimStart(str))
\* String.prototype.toLowerCase, on the letters the inputs use
LowerChar(ch) == IF ch = "P" THEN "p" ELSE ch
ToLowerCase(str) == [i \in 1..Len(str) |-> LowerChar(str[i])]
\* replace(/\s/g, "")
RemoveSpaces(str) == SelectSeq(str, LAMBDA ch : ~IsSpace(ch))
\* trimmedInput.toLowerCase().replace(/\s/g, "")
Normalize(trimmed) == RemoveSpaces(ToLowerCase(trimmed))
\* String.prototype.includes
Includes(str, word) ==
  \E i \in 1..(Len(str) - Len(word) + 1) : SubSeq(str, i, i + Len(word) - 1) = word

WordNo == <<"n", "o">>
WordN == <<"n">>
WordProceed == <<"p", "r", "o", "c", "e", "e", "d">>
WordReady == <<"r", "e", "a", "d", "y">>
WordSkip == <<"s", "k", "i", "p">>
WordDone == <<"d", "o", "n", "e">>
WordYes == <<"y", "e", "s">>
WordY == <<"y">>
WordContinue == <<"c", "o", "n", "t", "i", "n", "u", "e">>
WordRun == <<"r", "u", "n">>
WordAnalyze == <<"a", "n", "a", "l", "y", "z", "e">>
WordOk == <<"o", "k">>
WordRerun == <<"r", "e", "r", "u", "n">>
WordRunAgain == <<"r", "u", "n", "a", "g", "a", "i", "n">>

\* The tests the dispatch branches make on the input.
StopsOptional(trimmed) ==
  LET n == Normalize(trimmed)
  IN  n = WordNo \/ n = WordN \/ Includes(n, WordProceed) \/ Includes(n, WordReady)
SkipsAdvanced(trimmed) ==
  LET n == Normalize(trimmed)
  IN  n = WordNo \/ n = WordN \/ Includes(n, WordSkip) \/ Includes(n, WordDone)
ConfirmsSummary(trimmed) ==
  \E cmd \in {WordYes, WordProceed, WordContinue, WordRun, WordAnalyze, WordOk} :
     Includes(Normalize(trimmed), cmd)
AsksRerun(trimmed) ==
  \E cmd \in {WordRerun, WordRun, WordRunAgain} : Includes(Normalize(trimmed), cmd)
\* Mutant: the input is compared as typed.
IsRerun_AsTyped(trimmed) == trimmed \in {WordRerun, WordRun, WordRunAgain}
\* Line 618: the analysisError case.
IsRerun(trimmed) == Normalize(trimmed) \in {WordRerun, WordRun, WordRunAgain}
ShortConfirm(trimmed) == ToLowerCase(trimmed) \in {WordYes, WordY, WordSkip}
IsNo(trimmed) == ToLowerCase(trimmed) \in {WordNo, WordN}

ProductTypes == {"pressure transmitter"}
NoProductType == ""
AdvancedNames == {"ipRating"}

\* A provided-requirements object from its groups (null groups left out) and
\* its top-level extras.
MakeProvided(m, o, t) ==
  LET gs == {g \in GroupKeys : IF g = MandatoryKey THEN IsSome(m) ELSE IsSome(o)}
  IN  [k \in gs \cup DOMAIN t |->
         IF k = MandatoryKey THEN Get(m) ELSE IF k = OptionalKey THEN Get(o) ELSE t[k]]

\* The requirement values the backend extracts in the workflow.
ProvidedFirst ==
  MakeProvided(Some([k \in {KeyNames[1]} |-> MandatoryVal]), None, EmptyObject)
ProvidedSecond ==
  MakeProvided(None, Some([k \in {KeyNames[2]} |-> OptionalVal]), EmptyObject)
WorkflowProvided == {Some(ProvidedFirst), Some(ProvidedSecond)}

\* The schemas the backend answers with: both groups, or the mandatory only.
FullSchema ==
  [g \in GroupKeys |-> IF g = MandatoryKey THEN [k \in {KeyNames[1]} |-> "hint"]
                                              ELSE [k \in {KeyNames[2]} |-> "hint"]]
MandatoryOnlySchema == [g \in {MandatoryKey} |-> [k \in {KeyNames[1]} |-> "hint"]]
WorkflowSchemas == {FullSchema, MandatoryOnlySchema}

ValidationResults ==
  [productType : ProductTypes \cup {NoProductType},
   providedRequirements : WorkflowProvided,
   validationAlert : {None, Some(AlertMessage)}]

SelectionResults ==
  {[selectedParameters |-> EmptyObject, totalSelected |-> 0],
   [selectedParameters |-> [k \in AdvancedNames |-> "IP67"], totalSelected |-> 1]}

\* AnalysisResult.overallRanking.rankedProducts.
AnalysisResults ==
  {<<[overallScore |-> 90, requirementsMatch |-> TRUE],
     [overallScore |-> 70, requirementsMatch |-> FALSE]>>}

\* AgentResponse: content undefined (None), "" or a text; nextStep.
AgentContents == {None, Some(<<>>), Some(AgentText)}

\* -------------------------------------------------------------- state
VARIABLES
  messages,            \* state.messages: the message log
  currentStep,         \* the workflow step
  collectedData,       \* the accumulated requirement values
  advancedParameters,  \* the discovered advanced parameters, or null
  productType,         \* state.productType (and state.currentProductType)
  validationResult,    \* state.validationResult, or null
  analysisResult,      \* state.analysisResult, or null
  requirementSchema,   \* state.requirementSchema, or null
  isLoading,           \* state.isLoading
  isStreaming,         \* the streaming flag
  hasAutoSubmitted,    \* the URL input was submitted already
  searchInput,         \* the URL's input parameter, or null
  handler,             \* what the current handleSendMessage closure captured
  inv,                 \* the handler invocations in flight
  turns,               \* the number of messages accepted so far
  pure                 \* an application of the schema merger to a drawn input

vars == <<messages, currentStep, collectedData, advancedParameters, productType,
          validationResult, analysisResult, requirementSchema, isLoading,
          isStreaming, hasAutoSubmitted, searchInput, handler, inv, turns, pure>>

\* The whole state as one record, so that the synchronous code between two
\* awaits composes as a function from state to state.
World ==
  [messages |-> messages, currentStep |-> currentStep,
   collectedData |-> collectedData, advancedParameters |-> advancedParameters,
   productType |-> productType, validationResult |-> validationResult,
   analysisResult |-> analysisResult, requirementSchema |-> requirementSchema,
   isLoading |-> isLoading, isStreaming |-> isStreaming,
   hasAutoSubmitted |-> hasAutoSubmitted, handler |-> handler, inv |-> inv,
   turns |-> turns]

Commit(w) ==
  /\ messages' = w.messages
  /\ currentStep' = w.currentStep
  /\ collectedData' = w.collectedData
  /\ advancedParameters' = w.advancedParameters
  /\ productType' = w.productType
  /\ validationResult' = w.validationResult
  /\ analysisResult' = w.analysisResult
  /\ requirementSchema' = w.requirementSchema
  /\ isLoading' = w.isLoading
  /\ isStreaming' = w.isStreaming
  /\ hasAutoSubmitted' = w.hasAutoSubmitted
  /\ handler' = w.handler
  /\ inv' = w.inv
  /\ turns' = w.turns
  /\ UNCHANGED <<searchInput, pure>>

\* The values a handleSendMessage closure reads. The closure is created anew
\* when one of its dependencies changes: currentStep, collectedData,
\* state.productType, state.validationResult, state.requirementSchema;
\* advancedParameters is read by it and is no dependency.
Snapshot(w) ==
  [currentStep |-> w.currentStep, collectedData |-> w.collectedData,
   productType |-> w.productType, validationResult |-> w.validationResult,
   requirementSchema |-> w.requirementSchema,
   advancedParameters |-> w.advancedParameters]

Refresh(w) == [w EXCEPT !.handler = Snapshot(w)]

setCurrentStep(w, step) ==
  IF step = w.currentStep THEN w ELSE Refresh([w EXCEPT !.currentStep = step])
\* An object is a new object at every set.
setCollectedData(w, data) == Refresh([w EXCEPT !.collectedData = data])
setAdvancedParameters(w, params) == [w EXCEPT !.advancedParameters = params]
setIsLoading(w, flag) == [w EXCEPT !.isLoading = flag]

NoStream == [id |-> 0, fullText |-> <<>>, current |-> <<>>, i |-> 0]
IdleInvocation ==
  [pc |-> "idle", at |-> "", op |-> "", stack |-> <<>>,
   c |-> [currentStep |-> "greeting", collectedData |-> EmptyObject,
          productType |-> NoProductType, validationResult |-> None,
          requirementSchema |-> None, advancedParameters |-> None],
   text |-> <<>>, userMsg |-> 0, cls |-> None, resp |-> None, validation |-> None,
   result |-> None, stream |-> NoStream, trace |-> <<>>]

\* What an invocation did so far, in order: the messages it added, the calls
\* it issued (with the step or product type passed, and the line of the
\* call), how each call settled, what was thrown and where it was caught.
Event(ev, what, arg, at) == [ev |-> ev, what |-> what, arg |-> arg, at |-> at]
Log(w, p, ev, what, arg) ==
  [w EXCEPT !.inv[p].trace = Append(@, Event(ev, what, arg, ""))]

\* A message id (Date.now() and a random suffix) is an id no message of the
\* log has.
FreshId(w) == Len(w.messages) + 1

\* addMessage: a new entry with a fresh id at the end of the log.
addMessage(w, p, type, content) ==
  Log([w EXCEPT !.messages = Append(@, [id |-> FreshId(w), type |-> type,
                                       content |-> content])],
      p, "message", type, "")

\* Mutant: the content of every assistant entry is replaced.
updateMessage_AnyAssistant(w, id, newContent) ==
  [w EXCEPT !.messages =
     [n \in 1..Len(@) |-> IF @[n].type = "assistant"
                          THEN [@[n] EXCEPT !.content = newContent]
                          ELSE @[n]]]

\* updateMessage: the content of the entry with this id is replaced.
updateMessage(w, id, newContent) ==
  [w EXCEPT !.messages =
     [n \in 1..Len(@) |-> IF @[n].id = id THEN [@[n] EXCEPT !.content = newContent]
                          ELSE @[n]]]

\* An external call is issued and the invocation awaits it.
Call(w, p, op, site, arg) ==
  [w EXCEPT !.inv[p].pc = "call", !.inv[p].op = op, !.inv[p].at = site,
            !.inv[p].trace = Append(@, Event("call", op, arg, site))]

\* Mutant: no catch block receives the exception.
CatchOf_Unhandled(site) == "unhandled"

\* The catch block that receives an exception thrown at a site (or at the
\* return from a call made at it); "propagate" when the site is inside the
\* catch block of handleShowSummaryAndProceed or of performAnalysis.
CatchOf(site) ==
  CASE site \in {"L251", "L258"} -> "catch271"
    [] site \in {"L287", "L290", "ret299"} -> "catch302"
    [] site \in {"L271", "L302"} -> "propagate"
    [] site \in {"L382", "L384", "L390", "L405", "L408"} -> "catch423"
    [] site \in {"L438", "L448", "L452", "L470", "L476", "L485", "L490"} -> "catch505"
    [] site \in {"L527", "L531", "L533", "ret537"} -> "catch540"
    [] site \in {"L550", "L564", "ret578", "L582"} -> "catch591"
    [] site \in {"L635", "L646", "L656", "L660"} -> "catch677"
    [] site = "retRetry" -> "unhandled"
    [] OTHER -> "catch692"

\* An exception is thrown at a site: control moves to the catch block.
RECURSIVE Throw(_, _, _)
Throw(w, p, site) ==
  IF CatchOf(site) = "propagate"
  THEN LET st == w.inv[p].stack
       IN  Throw([w EXCEPT !.inv[p].stack = SubSeq(st, 1, Len(st) - 1)], p,
                 st[Len(st)])
  ELSE [w EXCEPT !.inv[p].pc = "run", !.inv[p].at = CatchOf(site),
                  !.inv[p].result = None,
                  !.inv[p].trace = Append(@, Event("catch", CatchOf(site), "", site))]

\* A TypeError is thrown at a site.
Raise(w, p, site) ==
  [w EXCEPT !.inv[p].trace = Append(@, Event("throw", "TypeError", "", site))]

\* streamAssistantMessage up to its first await: the flag, the empty
\* message, and the first character. A text without characters ends the
\* stream at once; an undefined text throws at fullText.length, after the
\* flag was set and the message added.
BeginStream(w, p, fullText, site) ==
  LET w1 == addMessage([w EXCEPT !.isStreaming = TRUE], p, "assistant", <<>>)
      id == FreshId(w)
  IN  IF ~IsSome(fullText) THEN Throw(Raise(w1, p, site), p, site)
      ELSE IF Get(fullText) = <<>>
      THEN [w1 EXCEPT !.isStreaming = FALSE, !.inv[p].pc = "run", !.inv[p].at = site]
      ELSE [updateMessage(w1, id, <<Get(fullText)[1]>>) EXCEPT
              !.inv[p].pc = "stream", !.inv[p].at = site,
              !.inv[p].stream = [id |-> id, fullText |-> Get(fullText),
                                 current |-> <<Get(fullText)[1]>>, i |-> 1]]

\* Mutant: the loop ends without clearing the flag.
StreamStep_FlagKept(w, p) ==
  LET st == w.inv[p].stream
  IN  IF st.i < Len(st.fullText)
      THEN LET cur == Append(st.current, st.fullText[st.i + 1])
           IN  [updateMessage(w, st.id, cur) EXCEPT
                  !.inv[p].stream.current = cur, !.inv[p].stream.i = st.i + 1]
      ELSE [w EXCEPT !.inv[p].pc = "run", !.inv[p].stream = NoStream]

\* One timer of streamAssistantMessage fires: the next character, or the end
\* of the loop, where the flag is cleared and the caller continues.
StreamStep(w, p) ==
  LET st == w.inv[p].stream
  IN  IF st.i < Len(st.fullText)
      THEN LET cur == Append(st.current, st.fullText[st.i + 1])
           IN  [updateMessage(w, st.id, cur) EXCEPT
                  !.inv[p].stream.current = cur, !.inv[p].stream.i = st.i + 1]
      ELSE [w EXCEPT !.isStreaming = FALSE, !.inv[p].pc = "run",
                     !.inv[p].stream = NoStream]

\* generateAgentResponse is called; its content is streamed when it resolves.
Gen(w, p, site, step) == Call(w, p, "generateAgentResponse", site, step)

\* The invocation ends.
Finish(w, p) == [w EXCEPT !.inv[p] = IdleInvocation]

\* Mutant: the switch is left without clearing isLoading.
EndOfSwitch_StillLoading(w, p) == Finish(w, p)

\* Line 688, after the switch.
EndOfSwitch(w, p) == Finish(setIsLoading(w, FALSE), p)

\* ------------------------------------------- the two self-healing calls
\* Mutant: classifyIntent without its catch block.
classifyIntent_NoFallback(ok, data) ==
  [rejected |-> ~ok, intent |-> data.intent, nextStep |-> data.nextStep,
   resumeWorkflow |-> data.resumeWorkflow]

\* classifyIntent: the backend's answer, or the fallback when the request
\* fails. It never rejects.
classifyIntent(ok, data) ==
  IF ok THEN [rejected |-> FALSE, intent |-> data.intent, nextStep |-> data.nextStep,
              resumeWorkflow |-> data.resumeWorkflow]
  ELSE [rejected |-> FALSE, intent |-> "other", nextStep |-> None,
        resumeWorkflow |-> FALSE]

\* generateAgentResponse: content and nextStep of the backend's answer, or
\* the apology with nextStep null when the request fails. It never rejects.
generateAgentResponse(ok, data) ==
  IF ok THEN [rejected |-> FALSE, content |-> data.content, nextStep |-> data.nextStep]
  ELSE [rejected |-> FALSE, content |-> Some(Apology), nextStep |-> None]

\* -------------------------------------------------- performAnalysis etc.
\* composeUserDataString of the analysis input: the product type and the
\* fields that are neither null nor empty.
composeUserDataString(data) ==
  [k \in {k \in DOMAIN data : data[k] # Null /\ data[k] # Empty} |-> data[k]]

\* fullInputStr of line 250: the product type and the composed fields of the
\* collectedData that the closure of performAnalysis holds.
Description(c) ==
  [productType |-> c.productType, fields |-> composeUserDataString(c.collectedData)]

\* performAnalysis up to its first await, called from the site ret. The
\* performAnalysis a handler calls is the one of the render that created the
\* handler: it reads the productType and the collectedData of that render.
performAnalysis(w, p, ret) ==
  Call([setIsLoading(w, TRUE) EXCEPT !.inv[p].stack = Append(@, ret)],
       p, "analyzeProducts", "L251", Description(w.inv[p].c))

\* handleShowSummaryAndProceed up to its first await, called from ret.
handleShowSummaryAndProceed(w, p, ret) ==
  Call([setIsLoading(w, TRUE) EXCEPT !.inv[p].stack = Append(@, ret)],
       p, "structureRequirements", "L287", "")

\* performAnalysis or handleShowSummaryAndProceed returns normally: the
\* caller continues after its await.
RECURSIVE ReturnNormal(_, _)
ReturnNormal(w, p) ==
  LET st == w.inv[p].stack
      ret == st[Len(st)]
      w1 == [w EXCEPT !.inv[p].stack = SubSeq(st, 1, Len(st) - 1)]
  IN  CASE ret = "ret299" -> ReturnNormal(w1, p)
        [] ret \in {"ret537", "retRetry"} -> Finish(w1, p)
        [] OTHER -> EndOfSwitch(w1, p)

\* ----------------------------------------------------- handleSendMessage
\* Mutant: the classifier's suggestion is followed whatever the intent.
TargetStep_NoOverride(intent, nextStep, step) ==
  IF IsSome(nextStep) THEN Get(nextStep) ELSE step

\* targetStep: the suggested step or else the current one, and initialInput
\* whenever the intent is productRequirements.
TargetStep(intent, nextStep, step) ==
  IF intent = "productRequirements" THEN "initialInput"
  ELSE IF IsSome(nextStep) THEN Get(nextStep) ELSE step

\* Lines 594 and 509: the end of the awaitAdvanced and awaitOptional cases.
EndOfCase(w, p) == EndOfSwitch(setIsLoading(w, FALSE), p)

\* The switch on targetStep, up to the first await of the chosen case.
Switch(w, p, target) ==
  LET c == w.inv[p].c
      text == w.inv[p].text
  IN  CASE target = "greeting" -> Gen(w, p, "L368", "greeting")
        [] target = "initialInput" -> Call(w, p, "validateRequirements", "L382", "")
        [] target = "awaitOptional" ->
             IF StopsOptional(text) THEN Gen(w, p, "L438", "awaitOptional")
             ELSE IF Normalize(text) # WordNo /\ ~IsNo(text)
             THEN Call(w, p, "additionalRequirements", "L470", c.productType)
             ELSE EndOfCase(w, p)
        [] target = "awaitAdvanced" ->
             IF SkipsAdvanced(text)
             THEN Call(setCurrentStep(w, "showSummary"), p, "structureRequirements",
                       "L527", "")
             ELSE IF IsSome(c.advancedParameters)
             THEN Call(w, p, "addAdvancedParameters", "L550", c.productType)
             ELSE Gen(w, p, "L582", "awaitAdvanced")
        [] target = "showSummary" ->
             IF ConfirmsSummary(text) THEN performAnalysis(w, p, "ret602")
             ELSE EndOfSwitch(w, p)
        [] target = "finalAnalysis" ->
             IF AsksRerun(text) THEN performAnalysis(w, p, "ret611")
             ELSE EndOfSwitch(w, p)
        [] target = "analysisError" ->
             IF IsRerun(text) THEN performAnalysis(w, p, "ret619")
             ELSE Gen(w, p, "L621", "analysisError")
        [] OTHER ->
             IF c.currentStep = "awaitMissingInfo"
             THEN IF ShortConfirm(text) THEN Gen(w, p, "L635", "confirmAfterMissingInfo")
                  ELSE Call(w, p, "validateRequirements", "L646",
                            IF IsSome(c.validationResult)
                            THEN Get(c.validationResult).productType ELSE "")
             ELSE Gen(w, p, "L682", "default")

\* Mutant: the answer to a knowledge question restarts the workflow.
Dispatch_KnowledgeRestarts(w, p) ==
  LET cls == Get(w.inv[p].cls)
      c == w.inv[p].c
      target == TargetStep(cls.intent, cls.nextStep, c.currentStep)
      w1 == [w EXCEPT !.inv[p].cls = Some([cls EXCEPT !.target = Some(target)])]
  IN  IF cls.intent = "knowledgeQuestion"
      THEN Gen(setCurrentStep(w, "initialInput"), p, "L330", c.currentStep)
      ELSE IF target = "showSummary" /\ c.currentStep = "awaitAdvanced"
      THEN handleShowSummaryAndProceed(setCurrentStep(w1, "showSummary"), p, "ret361")
      ELSE Switch(w1, p, target)

\* Lines 328-366: what follows the classification, up to the first await.
Dispatch(w, p) ==
  LET cls == Get(w.inv[p].cls)
      c == w.inv[p].c
      target == TargetStep(cls.intent, cls.nextStep, c.currentStep)
      w1 == [w EXCEPT !.inv[p].cls = Some([cls EXCEPT !.target = Some(target)])]
  IN  IF cls.intent = "knowledgeQuestion" THEN Gen(w, p, "L330", c.currentStep)
      ELSE IF target = "showSummary" /\ c.currentStep = "awaitAdvanced"
      THEN handleShowSummaryAndProceed(setCurrentStep(w1, "showSummary"), p, "ret361")
      ELSE Switch(w1, p, target)

\* Mutant: the step the backend's answer asks for is ignored.
StepAfter_Ignore(resp) == "awaitOptional"

\* The step the backend's answer asks for, or else awaitOptional (lines
\* 418-419 and 668-672).
StepAfter(resp) == IF IsSome(resp) THEN Get(resp) ELSE "awaitOptional"

\* Mutant: the validation is stored before the schema is fetched.
AfterValidation_StoreFirst(w, p) ==
  LET validation == w.inv[p].result
  IN  IF Get(validation).productType = NoProductType
      THEN Gen(w, p, "L384", "initialInput")
      ELSE Call(Refresh([w EXCEPT !.inv[p].validation = validation,
                                  !.productType = Get(validation).productType,
                                  !.validationResult = validation]), p,
                "getRequirementSchema", "L390", Get(validation).productType)

\* Lines 382-390: the validation arrived; without a product type the user
\* is told so, otherwise the schema of the product type is fetched.
AfterValidation(w, p) ==
  LET validation == w.inv[p].result
  IN  IF Get(validation).productType = NoProductType
      THEN Gen(w, p, "L384", "initialInput")
      ELSE Call([w EXCEPT !.inv[p].validation = validation], p,
                "getRequirementSchema", "L390", Get(validation).productType)

\* Lines 390-420: the schema arrived for the validation kept at line 382.
AfterSchema(w, p) ==
  LET validation == Get(w.inv[p].validation)
      schema == Get(w.inv[p].result)
      flatRequirements == flattenRequirements(validation.providedRequirements)
      mergedData == mergeRequirementsWithSchema(flatRequirements, Some(schema))
      w1 == setCollectedData(w, mergedData.value)
      w2 == Refresh([w1 EXCEPT !.requirementSchema = Some(schema),
                               !.productType = validation.productType,
                               !.validationResult = Some(validation)])
  IN  IF mergedData.threw THEN Throw(Raise(w, p, "L390"), p, "L390")
      ELSE IF IsSome(validation.validationAlert)
      THEN BeginStream(w2, p, validation.validationAlert, "L405")
      ELSE Gen(w2, p, "L408", "initialInput")

\* Lines 471-472 and 647-648: the new values are flattened, spread over the
\* collected data and completed with the schema's keys.
Accumulate(w, p, site) ==
  LET c == w.inv[p].c
      newFlatRequirements == flattenRequirements(
        IF site = "L470" THEN Get(w.inv[p].result)
        ELSE Get(w.inv[p].result).providedRequirements)
  IN  mergeRequirementsWithSchema(Spread(c.collectedData, newFlatRequirements),
                                  c.requirementSchema)

\* The code that follows the await at a site, up to the next await: after
\* the call resolved (a call that can reject), or after the text of the
\* site was streamed (generateAgentResponse and the fixed texts).
After(w, p) ==
  LET i == w.inv[p]
      c == i.c
      site == i.at
  IN  CASE site = "L325" -> Dispatch(w, p)
        [] site = "L330" -> EndOfSwitch(w, p)
        [] site = "L368" -> EndOfSwitch(setCurrentStep(w, "initialInput"), p)
        \* case initialInput
        [] site = "L382" -> AfterValidation(w, p)
        [] site = "L384" -> EndOfSwitch(setCurrentStep(w, "initialInput"), p)
        [] site = "L390" -> AfterSchema(w, p)
        [] site = "L405" -> EndOfSwitch(setCurrentStep(w, "awaitMissingInfo"), p)
        [] site = "L408" -> EndOfSwitch(setCurrentStep(w, StepAfter(i.resp)), p)
        [] site = "catch423" -> Gen(w, p, "L423", "default")
        [] site = "L423" -> EndOfSwitch(setCurrentStep(w, "initialInput"), p)
        \* case awaitOptional
        [] site = "L438" ->
             IF i.resp = Some("awaitAdvanced")
             THEN Call(setCurrentStep(w, "awaitAdvanced"), p,
                       "discoverAdvancedParameters", "L448", c.productType)
             ELSE EndOfSwitch(w, p)
        [] site = "L448" -> Gen(setAdvancedParameters(w, i.result), p, "L452",
                                "awaitAdvanced")
        [] site = "L452" -> EndOfSwitch(w, p)
        [] site = "L470" ->
             LET updatedData == Accumulate(w, p, "L470")
             IN  IF updatedData.threw
                 THEN Throw(Raise(w, p, "L470"), p, "L470")
                 ELSE Gen(setCollectedData(w, updatedData.value), p, "L476",
                          "awaitOptional")
        [] site = "L476" ->
             IF i.resp = Some("awaitAdvanced")
             THEN Call(w, p, "discoverAdvancedParameters", "L485", c.productType)
             ELSE IF IsSome(i.resp) THEN EndOfCase(setCurrentStep(w, Get(i.resp)), p)
             ELSE EndOfCase(w, p)
        [] site = "L485" ->
             Gen(setCurrentStep(setAdvancedParameters(w, i.result), "awaitAdvanced"),
                 p, "L490", "awaitAdvanced")
        [] site = "L490" -> EndOfCase(w, p)
        [] site = "catch505" -> Gen(w, p, "L505", "awaitOptional")
        [] site = "L505" -> EndOfCase(setCurrentStep(w, "awaitOptional"), p)
        \* case awaitAdvanced
        [] site = "L527" -> BeginStream(w, p, Some(SummaryIntro), "L531")
        [] site = "L531" ->
             BeginStream(addMessage(w, p, "assistant", Get(i.result)), p,
                         Some(StartingAnalysis), "L533")
        [] site = "L533" -> performAnalysis(setIsLoading(w, FALSE), p, "ret537")
        [] site = "catch540" -> BeginStream(w, p, Some(SummaryError), "L540")
        [] site = "L540" ->
             Finish(setCurrentStep(setIsLoading(w, FALSE), "showSummary"), p)
        [] site = "L550" ->
             LET selectionResult == Get(i.result)
             IN  Gen(IF selectionResult.totalSelected > 0
                     THEN setCollectedData(w, Spread(c.collectedData,
                                                     selectionResult.selectedParameters))
                     ELSE w,
                     p, "L564", "awaitAdvanced")
        [] site = "L564" ->
             IF i.resp = Some("showSummary")
             THEN handleShowSummaryAndProceed(setCurrentStep(w, "showSummary"), p,
                                              "ret578")
             ELSE EndOfCase(w, p)
        [] site = "L582" -> EndOfCase(w, p)
        [] site = "catch591" -> Gen(w, p, "L591", "awaitAdvanced")
        [] site = "L591" -> EndOfCase(w, p)
        \* case analysisError
        [] site = "L621" -> EndOfSwitch(w, p)
        \* default case
        [] site = "L635" -> EndOfSwitch(setCurrentStep(w, "awaitOptional"), p)
        [] site = "L646" ->
             LET updatedData == Accumulate(w, p, "L646")
                 newValidation == Get(i.result)
                 w1 == Refresh([setCollectedData(w, updatedData.value) EXCEPT
                                  !.validationResult = i.result])
             IN  IF updatedData.threw
                 THEN Throw(Raise(w, p, "L646"), p, "L646")
                 ELSE IF IsSome(newValidation.validationAlert)
                 THEN BeginStream(w1, p, newValidation.validationAlert, "L656")
                 ELSE Gen(w1, p, "L660", "confirmAfterMissingInfo")
        [] site = "L656" -> EndOfSwitch(setCurrentStep(w, "awaitMissingInfo"), p)
        [] site = "L660" -> EndOfSwitch(setCurrentStep(w, StepAfter(i.resp)), p)
        [] site = "catch677" -> Gen(w, p, "L677", "default")
        [] site = "L677" -> EndOfSwitch(w, p)
        [] site = "L682" -> EndOfSwitch(w, p)
        \* the catch of handleSendMessage
        [] site = "catch692" -> BeginStream(w, p, Some(GenericError), "L692")
        [] site = "L692" -> EndOfSwitch(w, p)
        \* performAnalysis
        [] site = "L251" -> Gen(w, p, "L258", "finalAnalysis")
        [] site = "L258" ->
             ReturnNormal(setCurrentStep([w EXCEPT !.analysisResult = i.result,
                                                   !.isLoading = FALSE],
                                         "initialInput"), p)
        [] site = "catch271" -> Gen(w, p, "L271", "analysisError")
        [] site = "L271" ->
             ReturnNormal(setCurrentStep(setIsLoading(w, FALSE), "analysisError"), p)
        \* handleShowSummaryAndProceed
        [] site = "L287" -> Gen(w, p, "L290", "showSummary")
        [] site = "L290" ->
             performAnalysis(setIsLoading(addMessage(w, p, "assistant", Get(i.result)),
                                          FALSE), p, "ret299")
        [] site = "catch302" -> Gen(w, p, "L302", "showSummary")
        [] site = "L302" ->
             ReturnNormal(setCurrentStep(setIsLoading(w, FALSE), "showSummary"), p)
        \* a rejection nobody catches
        [] OTHER -> Finish(w, p)

\* The invocation runs until it awaits something that is not yet settled.
RECURSIVE Run(_, _)
Run(w, p) == IF w.inv[p].pc = "run" THEN Run(After(w, p), p) ELSE w

\* ------------------------------------------------------------- actions
\* The calls that reject when the request fails.
MustCatchOps == {"validateRequirements", "getRequirementSchema",
                 "additionalRequirements", "discoverAdvancedParameters",
                 "addAdvancedParameters", "structureRequirements",
                 "analyzeProducts"}

\* What the backend can answer to a call.
Answers(op, i) ==
  CASE op = "validateRequirements" -> ValidationResults
    [] op = "getRequirementSchema" -> WorkflowSchemas
    [] op = "additionalRequirements" -> WorkflowProvided
    [] op = "discoverAdvancedParameters" ->
         {[productType |-> i.c.productType, uniqueParameters |-> AdvancedNames]}
    [] op = "addAdvancedParameters" -> SelectionResults
    [] op = "structureRequirements" -> {SummaryContent}
    [] op = "analyzeProducts" -> AnalysisResults

\* The sites whose code reads agentResponse.nextStep.
NextStepSites == {"L408", "L438", "L476", "L564", "L660"}

\* intentResult is not read after the dispatch.
Forget(w, p) == [w EXCEPT !.inv[p].cls = None]

FreeSlots == {p \in Procs : inv[p].pc = "idle"}
FreeSlot == CHOOSE p \in FreeSlots : \A q \in FreeSlots : p <= q

\* The handler never reads the log. When a message is accepted while no
\* invocation is in flight, the model forgets the messages of the finished
\* turns: the log it keeps is the log since then.
Forgetful(w) ==
  IF \A q \in Procs : w.inv[q].pc = "idle" THEN [w EXCEPT !.messages = <<>>] ELSE w

\* Mutant: the classifier is called before the user's message is added.
handleSendMessage_CallFirst(w, p, userInput) ==
  LET trimmedInput == Trim(userInput)
      w0 == Forgetful(w)
      w1 == [w0 EXCEPT !.inv[p] = [IdleInvocation EXCEPT !.c = w0.handler,
                                                        !.text = trimmedInput,
                                                        !.userMsg = FreshId(w0)],
                      !.turns = @ + 1]
  IN  IF trimmedInput = <<>> THEN w
      ELSE setIsLoading(addMessage(Call(w1, p, "classifyIntent", "L325", ""), p,
                                   "user", trimmedInput), TRUE)

\* handleSendMessage up to its first await: the empty input is dropped; the
\* user's message is added, then classifyIntent is called.
handleSendMessage(w, p, userInput) ==
  LET trimmedInput == Trim(userInput)
      w0 == Forgetful(w)
      w1 == [w0 EXCEPT !.inv[p] = [IdleInvocation EXCEPT !.c = w0.handler,
                                                        !.text = trimmedInput,
                                                        !.userMsg = FreshId(w0)],
                      !.turns = @ + 1]
  IN  IF trimmedInput = <<>> THEN w
      ELSE Call(setIsLoading(addMessage(w1, p, "user", trimmedInput), TRUE), p,
                "classifyIntent", "L325", "")

\* A session is followed for MaxTurns messages, and the session of a page
\* opened without an input for one message more where it stands in the loop
\* of the missing information or before the selection of the advanced
\* parameters it discovered.
TurnBound ==
  IF /\ searchInput = None
     /\ \/ currentStep = "awaitMissingInfo"
        \/ currentStep = "awaitAdvanced" /\ IsSome(handler.advancedParameters)
  THEN MaxTurns + 1 ELSE MaxTurns

\* ChatInterface: the text area and the send button are disabled at
\* finalAnalysis.
InputDisabled == currentStep = "finalAnalysis"

\* ChatInterface.handleSend: the send button or the Enter key. Nothing is
\* sent while isLoading; at finalAnalysis the input is disabled.
SendMessage ==
  /\ ~isLoading
  /\ ~InputDisabled
  /\ turns < TurnBound
  /\ FreeSlots # {}
  /\ \E userInput \in UserInputs :
       /\ Trim(userInput) # <<>>
       /\ Commit(handleSendMessage(World, FreeSlot, Trim(userInput)))

\* The timer of the URL input fires: the input is submitted to the current
\* handler and marked as submitted.
AutoSubmit ==
  /\ IsSome(searchInput)
  /\ ~hasAutoSubmitted
  /\ turns < MaxTurns
  /\ FreeSlots # {}
  /\ Commit([handleSendMessage(World, FreeSlot, Get(searchInput)) EXCEPT
               !.hasAutoSubmitted = TRUE])

\* classifyIntent settles.
ClassifyIntentSettles(p) ==
  /\ inv[p].pc = "call"
  /\ inv[p].op = "classifyIntent"
  /\ \E ok \in BOOLEAN :
     \E data \in [intent : Intents,
                  nextStep : {None} \cup {Some(x) : x \in ClassifierSteps},
                  resumeWorkflow : BOOLEAN] :
       LET r == classifyIntent(ok, data)
           w == Log(World, p, IF ok THEN "resolved" ELSE "failed", "classifyIntent", "")
       IN  /\ ok \/ data = [intent |-> "other", nextStep |-> None,
                             resumeWorkflow |-> FALSE]
           /\ Commit(Run(IF r.rejected THEN Throw(w, p, "L325")
                         ELSE [w EXCEPT !.inv[p].pc = "run",
                                        !.inv[p].cls = Some([intent |-> r.intent,
                                                             nextStep |-> r.nextStep,
                                                             resumeWorkflow |-> r.resumeWorkflow,
                                                             failed |-> ~ok,
                                                             target |-> None])],
                         p))

\* generateAgentResponse settles and its content is streamed.
GenerateAgentResponseSettles(p) ==
  /\ inv[p].pc = "call"
  /\ inv[p].op = "generateAgentResponse"
  /\ \E ok \in BOOLEAN :
     \E data \in [content : AgentContents, nextStep : {None} \cup {Some(x) : x \in AgentSteps}] :
       LET r == generateAgentResponse(ok, data)
           site == inv[p].at
           w == Log(Forget(World, p), p, IF ok THEN "resolved" ELSE "failed",
                    "generateAgentResponse", r.content)
           w1 == [w EXCEPT !.inv[p].resp = IF site \in NextStepSites THEN r.nextStep
                                           ELSE None]
       IN  /\ ok \/ data = [content |-> None, nextStep |-> None]
           /\ Commit(Run(IF r.rejected THEN Throw(w, p, site)
                         ELSE BeginStream(w1, p, r.content, site), p))

\* A call that can reject resolves with the backend's answer.
ExternalCallResolves(p) ==
  /\ inv[p].pc = "call"
  /\ inv[p].op \in MustCatchOps
  /\ \E answer \in Answers(inv[p].op, inv[p]) :
       Commit(Run([Log(Forget(World, p), p, "resolved", inv[p].op, "") EXCEPT
                     !.inv[p].pc = "run", !.inv[p].result = Some(answer)], p))

\* A call that can reject rejects: the request failed.
ExternalCallRejects(p) ==
  /\ inv[p].pc = "call"
  /\ inv[p].op \in MustCatchOps
  /\ Commit(Run(Throw(Log(Forget(World, p), p, "rejected", inv[p].op, ""), p,
                      inv[p].at), p))

\* A timer of streamAssistantMessage fires.
StreamTimer(p) ==
  /\ inv[p].pc = "stream"
  /\ Commit(Run(StreamStep(Forget(World, p), p), p))

\* ------------------------------------------------------ specifications
InitWorkflow ==
  /\ messages = <<>>
  /\ currentStep = "greeting"
  /\ collectedData = EmptyObject
  /\ advancedParameters = None
  /\ productType = NoProductType
  /\ validationResult = None
  /\ analysisResult = None
  /\ requirementSchema = None
  /\ isLoading = FALSE
  /\ isStreaming = FALSE
  /\ hasAutoSubmitted = FALSE
  /\ handler = IdleInvocation.c
  /\ inv = [p \in Procs |-> IdleInvocation]
  /\ turns = 0

NoPure == [op |-> "none"]

Init ==
  /\ InitWorkflow
  /\ searchInput = None
  /\ pure = NoPure

Next ==
  \/ SendMessage
  \/ \E p \in Procs : ClassifyIntentSettles(p)
  \/ \E p \in Procs : GenerateAgentResponseSettles(p)
  \/ \E p \in Procs : ExternalCallResolves(p)
  \/ \E p \in Procs : ExternalCallRejects(p)
  \/ \E p \in Procs : StreamTimer(p)

\* The session of a page opened without an input parameter.
Spec == Init /\ [][Next]_vars

\* Every external call is answered or fails, and a timer that was set
\* fires.
\* Invocation p takes a step: the call it awaits settles or its timer fires.
Moves(p) == inv[p].pc # "idle" /\ inv'[p] # inv[p]

\* Every external call is answered or fails, and a timer that was set
\* fires: weak fairness of the steps of each invocation. An invocation that
\* is not idle awaits a call or a timer, so that one of ClassifyIntentSettles,
\* GenerateAgentResponseSettles, ExternalCallResolves, ExternalCallRejects
\* and StreamTimer is enabled for it, and these are the only steps that
\* change a running invocation; the fairness condition is written with this
\* enabling condition and this step.
SpecFair ==
  Spec /\ \A p \in Procs : ([]<>(inv[p].pc = "idle") \/ []<><<Moves(p)>>_vars)

\* The session of a page opened with ?input=...: the timer of the effect
\* submits the input once.
InitAuto ==
  /\ InitWorkflow
  /\ searchInput = Some(InputFree)
  /\ pure = NoPure

\* Invocations that overlap are followed for AutoDepth events each.
AutoDepth == 4
InFlight == {p \in Procs : inv[p].pc # "idle"}
Followed ==
  Cardinality(InFlight) >= 2 => \A p \in Procs : Len(inv[p].trace) <= AutoDepth

NextAuto == (Next \/ AutoSubmit) /\ Followed

SpecAuto == InitAuto /\ [][NextAuto]_vars

\* ---------------------------------------- the schema merger on its own
\* The groups and the top-level extras a provided object is drawn from.
GroupInputs(val) == {None} \cup {Some(g) : g \in Objects(Keys, {Null, Empty, val})}
ProvidedInputs ==
  {None} \cup
  {Some(MakeProvided(m, o, t)) : m \in GroupInputs(MandatoryVal),
                                 o \in GroupInputs(OptionalVal),
                                 t \in Objects(Keys, {Null, Empty, ExtraVal})}

\* The flat partial data and the schemas the merge is drawn from: a schema
\* may lack either group, and the schema may be null.
SchemaGroups == {None} \cup {Some([k \in ks |-> "hint"]) : ks \in SUBSET Keys}
MakeSchema(m, o) ==
  [g \in {g \in GroupKeys : IF g = MandatoryKey THEN IsSome(m) ELSE IsSome(o)} |->
     IF g = MandatoryKey THEN Get(m) ELSE Get(o)]
SchemaInputs == {None} \cup {Some(MakeSchema(m, o)) : m \in SchemaGroups, o \in SchemaGroups}

InitPure ==
  /\ InitWorkflow
  /\ searchInput = None
  /\ \/ \E x \in ProvidedInputs : pure = [op |-> "provided", provided |-> x]
     \/ \E d \in Objects(Keys, Leaves) : \E sch \in SchemaInputs :
          pure = [op |-> "data", provided |-> d, schema |-> sch]

WorkflowUnchanged ==
  UNCHANGED <<messages, currentStep, collectedData, advancedParameters, productType,
              validationResult, analysisResult, requirementSchema, isLoading,
              isStreaming, hasAutoSubmitted, searchInput, handler, inv, turns>>

\* flattenRequirements(provided)
FlattenProvided ==
  /\ pure.op = "provided"
  /\ pure' = [op |-> "flat", provided |-> pure.provided,
              flat |-> flattenRequirements(pure.provided)]
  /\ WorkflowUnchanged

\* flattenRequirements(flattenRequirements(provided))
FlattenAgain ==
  /\ pure.op = "flat"
  /\ pure' = [op |-> "flatAgain", provided |-> pure.provided, flat |-> pure.flat,
              again |-> flattenRequirements(Some(pure.flat))]
  /\ WorkflowUnchanged

\* mergeRequirementsWithSchema(provided, schema)
MergeData ==
  /\ pure.op = "data"
  /\ pure' = [op |-> "merged", provided |-> pure.provided, schema |-> pure.schema,
              merged |-> mergeRequirementsWithSchema(pure.provided, pure.schema)]
  /\ WorkflowUnchanged

NextPure == FlattenProvided \/ FlattenAgain \/ MergeData

SpecPure == InitPure /\ [][NextPure]_vars

\* ------------------------------------------ the results view on its own
\* RightPanel is a function of its props: the analysis result and isDocked.
MaxMatches == 2
MaxRanked == 2
\* Vendor and product names are texts; a name may hold a hyphen.
PanelVendors == {<<"A">>, <<"A", "-", "B">>}
PanelProducts == {<<"C">>, <<"B", "-", "C">>}
\* requirementsMatch: true, false, or missing from the backend's object.
MatchFlags == {None, Some(TRUE), Some(FALSE)}
\* The rank the backend gave.
BackendRanks == {1, 5}
BoundedSeq(S, n) == UNION {[1..k -> S] : k \in 0..n}
VendorMatches ==
  BoundedSeq([vendor : PanelVendors, productName : PanelProducts,
              requirementsMatch : MatchFlags], MaxMatches)
RankedProducts ==
  BoundedSeq([vendor : PanelVendors, productName : PanelProducts,
              rank : BackendRanks, requirementsMatch : MatchFlags], MaxRanked)
PanelResults ==
  {None} \cup {Some([vendorMatches |-> vm, rankedProducts |-> rp]) :
                  vm \in VendorMatches, rp \in RankedProducts}

\* `${vendor}-${productName}`
MatchKey(e) == e.vendor \o <<"-">> \o e.productName

\* requirementsMatchMap after the first n vendor matches: map.set(key,
\* !!match.requirementsMatch) for each in turn.
RECURSIVE MapAfter(_, _)
MapAfter(vendorMatches, n) ==
  IF n = 0 THEN EmptyObject
  ELSE LET map == MapAfter(vendorMatches, n - 1)
           match == vendorMatches[n]
       IN  [k \in (DOMAIN map) \cup {MatchKey(match)} |->
              IF k = MatchKey(match) THEN match.requirementsMatch = Some(TRUE)
              ELSE map[k]]
requirementsMatchMap(analysis) ==
  MapAfter(analysis.vendorMatches, Len(analysis.vendorMatches))

\* Mutant: the product's own flag, whatever the map holds.
EffectiveMatch_Own(map, product) == product.requirementsMatch

\* requirementsMatchMap.get(key) ?? product.requirementsMatch
EffectiveMatch(map, product) ==
  IF MatchKey(product) \in DOMAIN map THEN Some(map[MatchKey(product)])
  ELSE product.requirementsMatch

\* Mutant: the products keep the backend's rank.
Rerank_BackendRank(map, products) ==
  [index \in 1..Len(products) |->
     [products[index] EXCEPT !.requirementsMatch = EffectiveMatch(map, products[index])]]

\* .map((product, index) => ({...product, rank: index + 1, requirementsMatch}))
Rerank(map, products) ==
  [index \in 1..Len(products) |->
     [products[index] EXCEPT !.rank = index,
                             !.requirementsMatch = EffectiveMatch(map, products[index])]]

\* filteredAnalysisResult: null for no analysis result; else the vendor
\* matches whose flag is true, and the ranked products whose flag in the map,
\* or else their own, is true, ranked anew.
filteredAnalysisResult(analysisResultProp) ==
  IF ~IsSome(analysisResultProp) THEN None
  ELSE LET a == Get(analysisResultProp)
           map == requirementsMatchMap(a)
           MatchIsTrue(match) == match.requirementsMatch = Some(TRUE)
           ProductIsTrue(product) == EffectiveMatch(map, product) = Some(TRUE)
       IN  Some([vendorMatches |-> SelectSeq(a.vendorMatches, MatchIsTrue),
                 rankedProducts |-> Rerank(map, SelectSeq(a.rankedProducts,
                                                         ProductIsTrue))])

\* What RightPanel renders: the minimal panel when no vendor match is left;
\* else the compact summary when docked, else the results with their tabs.
RightPanel(analysisResultProp, isDocked) ==
  LET finalAnalysisResult == filteredAnalysisResult(analysisResultProp)
  IN  IF ~IsSome(finalAnalysisResult) THEN "minimal"
      ELSE IF Len(Get(finalAnalysisResult).vendorMatches) = 0 THEN "minimal"
      ELSE IF isDocked THEN "compact" ELSE "results"

InitPanel ==
  /\ InitWorkflow
  /\ searchInput = None
  /\ \E a \in PanelResults : \E d \in BOOLEAN :
       pure = [op |-> "props", analysisResult |-> a, isDocked |-> d]

\* RightPanel renders its props.
RenderRightPanel ==
  /\ pure.op = "props"
  /\ pure' = [op |-> "panel", analysisResult |-> pure.analysisResult,
              isDocked |-> pure.isDocked,
              filtered |-> filteredAnalysisResult(pure.analysisResult),
              view |-> RightPanel(pure.analysisResult, pure.isDocked)]
  /\ WorkflowUnchanged

NextPanel == RenderRightPanel

SpecPanel == InitPanel /\ [][NextPanel]_vars

\* ------------------------------- the price and review lookups on their own
\* The effect of RightPanel that runs when its analysisResult prop changes.
MaxAnalyses == 2
\* The ranked products of an analysis result, as far as the effect reads them.
PriceProducts ==
  [vendor : PanelVendors, productName : PanelProducts,
   requirementsMatch : {Some(TRUE), Some(FALSE)}]
PriceRankings == BoundedSeq(PriceProducts, MaxRanked)
\* The results the backend answers a lookup with.
PriceLists == {<<>>, <<[price |-> "9.99", source |-> "shop"]>>}

\* getProductPriceReview: the backend's results, or none when the request
\* fails. It never rejects.
getProductPriceReview(ok, data) == IF ok THEN data ELSE <<>>

\* matchedProducts: the ranked products whose own flag is true.
matchedProducts(rankedProducts) ==
  LET OwnMatch(product) == product.requirementsMatch = Some(TRUE)
  IN  SelectSeq(rankedProducts, OwnMatch)

\* The map that Promise.all(...).then builds from the first n results of a
\* batch: map[key] = {results} for each in turn.
RECURSIVE BatchMapAfter(_, _)
BatchMapAfter(batch, n) ==
  IF n = 0 THEN EmptyObject
  ELSE LET map == BatchMapAfter(batch, n - 1)
           key == MatchKey(batch.products[n])
       IN  [k \in (DOMAIN map) \cup {key} |->
              IF k = key THEN Get(batch.results[n]) ELSE map[k]]

\* Every lookup of the batch has settled.
BatchDone(batch) == \A n \in 1..Len(batch.results) : IsSome(batch.results[n])

\* A batch all of whose lookups have settled sets the map to its own map
\* (setPriceReviewMap(map)) and is over.
SettleBatches(batches, priceReviewMap) ==
  LET done == {b \in 1..Len(batches) : BatchDone(batches[b])}
      Pending(batch) == ~BatchDone(batch)
  IN  [batches |-> SelectSeq(batches, Pending),
       priceReviewMap |->
         IF done = {} THEN priceReviewMap
         ELSE LET b == CHOOSE b \in done : TRUE
              IN  BatchMapAfter(batches[b], Len(batches[b].products))]

InitPrice ==
  /\ InitWorkflow
  /\ searchInput = None
  /\ pure = [op |-> "lookups", analysisResult |-> None, given |-> 0,
             batches |-> <<>>, priceReviewMap |-> EmptyObject]

\* The analysisResult prop changes: the effect starts one lookup for each
\* matched product; the lookups of earlier batches stay in flight.
AnalysisResultChanges ==
  /\ pure.op = "lookups"
  /\ pure.given < MaxAnalyses
  /\ \E rankedProducts \in PriceRankings :
       LET products == matchedProducts(rankedProducts)
           batch == [products |-> products,
                     results |-> [n \in 1..Len(products) |-> None]]
           settled == SettleBatches(Append(pure.batches, batch), pure.priceReviewMap)
       IN  pure' = [pure EXCEPT !.analysisResult = Some(rankedProducts),
                                !.given = @ + 1,
                                !.batches = settled.batches,
                                !.priceReviewMap = settled.priceReviewMap]
  /\ WorkflowUnchanged

\* One lookup settles; the batch whose last lookup it was sets the map.
PriceReviewSettles ==
  /\ pure.op = "lookups"
  /\ \E b \in 1..Len(pure.batches) :
     \E n \in 1..Len(pure.batches[b].results) :
     \E ok \in BOOLEAN : \E data \in PriceLists :
       LET batches == [pure.batches EXCEPT
                         ![b].results[n] = Some(getProductPriceReview(ok, data))]
           settled == SettleBatches(batches, pure.priceReviewMap)
       IN  /\ ~IsSome(pure.batches[b].results[n])
           /\ ok \/ data = <<>>
           /\ pure' = [pure EXCEPT !.batches = settled.batches,
                                    !.priceReviewMap = settled.priceReviewMap]
  /\ WorkflowUnchanged

NextPrice == AnalysisResultChanges \/ PriceReviewSettles

SpecPrice == InitPrice /\ [][NextPrice]_vars

\* ------------------------------------- streamAssistantMessage on its own
\* Two callers stream one text each; the timers fire in any order.
MaxStreamLen == 3
StreamTexts == BoundedSeq({"a", "b"}, MaxStreamLen)

InitStream ==
  /\ InitWorkflow
  /\ searchInput = None
  /\ pure = [op |-> "stream"]

\* streamAssistantMessage(fullText) is called: up to its first timer.
StartStream(p) ==
  /\ pure.op = "stream"
  /\ inv[p].pc = "idle"
  /\ \E fullText \in StreamTexts :
       Commit(BeginStream(World, p, Some(fullText), "L263"))

\* A timer of the loop fires; the caller is not followed further.
StreamTick(p) ==
  /\ pure.op = "stream"
  /\ inv[p].pc = "stream"
  /\ Commit(StreamStep(World, p))

NextStream == \E p \in Procs : StartStream(p) \/ StreamTick(p)

SpecStream == InitStream /\ [][NextStream]_vars

\* A timer that was set fires.
SpecStreamFair == SpecStream /\ \A p \in Procs : WF_vars(StreamTick(p))

\* ------------------------------------------------------------ properties
Trace(p) == inv[p].trace
\* The invocation answers a knowledge question (the call of line 330).
KnowledgeTurn(p) ==
  \E n \in DOMAIN Trace(p) : Trace(p)[n].ev = "call" /\ Trace(p)[n].at = "L330"
\* The keys of an object that hold a value other than null and "".
NonEmptyKeys(data) == {k \in DOMAIN data : data[k] # Null /\ data[k] # Empty}
Holds(obj, k) == k \in DOMAIN obj /\ obj[k] # Null /\ obj[k] # Empty
GroupHolds(provided, g, k) == g \in DOMAIN provided /\ Holds(provided[g], k)

\* C1: when classifyIntent answers productRequirements, whatever the current
\* step and whatever step the classifier suggests, the target step is
\* initialInput and the handler's dispatch is the call of validateRequirements
\* of the initialInput case.
C1_ProductRequirementsDispatchInitialInput ==
  \A p \in Procs :
    LET i == inv[p]
    IN  (IsSome(i.cls) /\ Get(i.cls).intent = "productRequirements") =>
          /\ Get(i.cls).target = Some("initialInput")
          /\ i.pc = "call" /\ i.op = "validateRequirements" /\ i.at = "L382"
          /\ i.trace[Len(i.trace)] = Event("call", "validateRequirements", "", "L382")

\* C1's case: at awaitAdvanced the classifier suggests showSummary with the
\* intent productRequirements, and the message is validated.
C1_Witness ==
  \E p \in Procs :
    /\ IsSome(inv[p].cls)
    /\ Get(inv[p].cls).intent = "productRequirements"
    /\ Get(inv[p].cls).nextStep = Some("showSummary")
    /\ inv[p].c.currentStep = "awaitAdvanced"
    /\ inv[p].op = "validateRequirements"

\* C2: in a turn classified knowledgeQuestion the answer is requested for the
\* current step, no step of the turn changes currentStep, collectedData,
\* productType, requirementSchema or advancedParameters, and the turn ends
\* with an assistant message after the user's.
C2_KnowledgeQuestionChangesNothing ==
  [][\A p \in Procs :
       (KnowledgeTurn(p) \/ KnowledgeTurn(p)') =>
         /\ UNCHANGED <<currentStep, collectedData, productType, requirementSchema,
                        advancedParameters>>
         /\ \A n \in DOMAIN inv'[p].trace :
              (inv'[p].trace[n].ev = "call" /\ inv'[p].trace[n].at = "L330") =>
                inv'[p].trace[n] = Event("call", "generateAgentResponse", currentStep,
                                         "L330")
         /\ (inv'[p].pc = "idle") =>
              /\ Len(messages') > inv[p].userMsg
              /\ messages'[Len(messages')].type = "assistant"]_vars

\* C2's case: a knowledge question asked at awaitAdvanced, with requirements
\* collected and a schema fetched, is being answered.
C2_Witness ==
  \E p \in Procs :
    /\ KnowledgeTurn(p)
    /\ inv[p].pc = "stream"
    /\ currentStep = "awaitAdvanced"
    /\ NonEmptyKeys(collectedData) # {}
    /\ IsSome(requirementSchema)

\* The user's message is the first thing the invocation did, it is in the log
\* with the submitted text, and what follows it in the log are the assistant
\* messages the invocation added since.
UserMessageFirst(p) ==
  LET i == inv[p]
  IN  /\ i.trace # <<>>
      /\ i.trace[1] = Event("message", "user", "", "")
      /\ \A n \in 2..Len(i.trace) : i.trace[n].ev = "message" => i.trace[n].what = "assistant"
      /\ i.userMsg \in 1..Len(messages)
      /\ messages[i.userMsg] = [id |-> i.userMsg, type |-> "user", content |-> i.text]
      /\ \A n \in (i.userMsg + 1)..Len(messages) : messages[n].type = "assistant"
      /\ Cardinality({n \in DOMAIN i.trace : i.trace[n].ev = "message"})
           = Len(messages) - i.userMsg + 1

\* C3: in every state of a turn the user's message was added before every
\* call and every assistant message of the turn, and every step of the turn,
\* its last one included, leaves it in the log.
C3_UserMessageFirstAndKept ==
  [][\A p \in Procs :
       /\ (inv'[p].pc # "idle") => UserMessageFirst(p)'
       /\ (inv[p].pc # "idle") =>
            /\ Len(messages') >= inv[p].userMsg
            /\ messages'[inv[p].userMsg] = messages[inv[p].userMsg]]_vars

\* C3's case: the turn failed unexpectedly (the generic error message is
\* being streamed) and the user's message is in the log before it.
C3_Witness ==
  \E p \in Procs :
    /\ inv[p].pc = "stream"
    /\ inv[p].at = "L692"
    /\ messages[inv[p].userMsg].type = "user"
    /\ Len(messages) > inv[p].userMsg

\* C4: merge(D, S) has exactly the keys of D and of the two groups of S; a
\* key of D keeps its value; a schema key absent from D holds "".
C4_MergeHasSchemaAndData ==
  (pure.op = "merged" /\ ~pure.merged.threw) =>
    LET D == pure.provided
        S == Get(pure.schema)
        M == pure.merged.value
        schemaKeys == UNION {DOMAIN S[g] : g \in DOMAIN S}
    IN  /\ DOMAIN M = (DOMAIN D) \cup schemaKeys
        /\ \A k \in DOMAIN D : M[k] = D[k]
        /\ \A k \in schemaKeys \ DOMAIN D : M[k] = Empty

\* C4's case: a schema with keys in both groups, a key of D that the schema
\* names too (holding null), and a schema key D lacks.
C4_Witness ==
  /\ pure.op = "merged"
  /\ IsSome(pure.schema)
  /\ DOMAIN Get(pure.schema) = GroupKeys
  /\ \A g \in GroupKeys : DOMAIN Get(pure.schema)[g] # {}
  /\ \E k \in DOMAIN pure.provided :
       k \in DOMAIN Get(pure.schema)[MandatoryKey] /\ pure.merged.value[k] = Null
  /\ \E k \in DOMAIN Get(pure.schema)[OptionalKey] :
       k \notin DOMAIN pure.provided /\ pure.merged.value[k] = Empty

\* C5 (as claimed): mergeRequirementsWithSchema never fails in the workflow:
\* no invocation throws at a line that merges (392, 472, 648).
C5_MergeNeverFails ==
  \A p \in Procs : \A n \in DOMAIN Trace(p) :
    ~(Trace(p)[n].ev = "throw" /\ Trace(p)[n].at \in {"L390", "L470", "L646"})

\* C6 (amended): the flat mapping holds no null and no "" value; a key holds
\* the optional group's value if that is neither null nor "", else the
\* mandatory group's, else the top-level one; a key with none is absent.
C6_FlattenGroupsBeforeExtras ==
  (pure.op = "flat") =>
    LET flat == pure.flat
    IN  /\ \A k \in DOMAIN flat : flat[k] # Null /\ flat[k] # Empty
        /\ (~IsSome(pure.provided)) => (flat = EmptyObject)
        /\ IsSome(pure.provided) =>
             LET P == Get(pure.provided)
             IN  /\ DOMAIN flat \subseteq Keys
                 /\ \A k \in Keys :
                      IF GroupHolds(P, OptionalKey, k)
                      THEN Holds(flat, k) /\ flat[k] = P[OptionalKey][k]
                      ELSE IF GroupHolds(P, MandatoryKey, k)
                      THEN Holds(flat, k) /\ flat[k] = P[MandatoryKey][k]
                      ELSE IF Holds(P, k) THEN Holds(flat, k) /\ flat[k] = P[k]
                      ELSE k \notin DOMAIN flat

\* C6's case: one key holds a value in the mandatory group, in the optional
\* group and at the top level, and the object was flattened.
C6_Witness ==
  /\ pure.op = "flat"
  /\ IsSome(pure.provided)
  /\ \E k \in Keys :
       /\ GroupHolds(Get(pure.provided), MandatoryKey, k)
       /\ GroupHolds(Get(pure.provided), OptionalKey, k)
       /\ Holds(Get(pure.provided), k)
       /\ pure.flat[k] = OptionalVal

\* C6 (as claimed): the value kept is the last one written in the order
\* mandatory, optional, top level: a top-level value that is neither null nor
\* "" replaces a group's value.
C6_LastWriteWins ==
  (pure.op = "flat" /\ IsSome(pure.provided)) =>
    LET P == Get(pure.provided)
        flat == pure.flat
    IN  /\ \A k \in DOMAIN flat : flat[k] # Null /\ flat[k] # Empty
        /\ \A k \in Keys :
             IF Holds(P, k) THEN Holds(flat, k) /\ flat[k] = P[k]
             ELSE IF GroupHolds(P, OptionalKey, k)
             THEN Holds(flat, k) /\ flat[k] = P[OptionalKey][k]
             ELSE IF GroupHolds(P, MandatoryKey, k)
             THEN Holds(flat, k) /\ flat[k] = P[MandatoryKey][k]
             ELSE k \notin DOMAIN flat

\* A mapping without group keys whose values are neither null nor "".
IsFlatMapping(o) ==
  /\ IsSome(o)
  /\ (DOMAIN Get(o)) \cap GroupKeys = {}
  /\ NonEmptyKeys(Get(o)) = DOMAIN Get(o)

\* C7: flattening the result of a flattening gives that result, and
\* flattening a mapping that is flat already gives that mapping.
C7_FlattenIdempotent ==
  /\ (pure.op = "flatAgain") => (pure.again = pure.flat)
  /\ (pure.op = "flat" /\ IsFlatMapping(pure.provided)) => (pure.flat = Get(pure.provided))

\* C7's case: a result with two keys, one from a group and one from the top
\* level, was flattened again.
C7_Witness ==
  /\ pure.op = "flatAgain"
  /\ Cardinality(DOMAIN pure.flat) >= 2
  /\ \E k \in DOMAIN pure.flat : pure.flat[k] = ExtraVal
  /\ \E k \in DOMAIN pure.flat : pure.flat[k] # ExtraVal

\* C8 (as claimed): a key that holds a value other than null and "" when a
\* turn begins (the end of the turn before) holds one when the turn ends.
C8_CollectedDataNeverLosesAKey ==
  [][\A p \in Procs :
       (inv[p].pc # "idle" /\ inv'[p].pc = "idle") =>
         NonEmptyKeys(inv[p].c.collectedData) \subseteq NonEmptyKeys(collectedData')]_vars

\* The lines of the first call the switch makes for a current step.
FirstSites(step) ==
  CASE step = "greeting" -> {"L368"}
    [] step = "initialInput" -> {"L382"}
    [] step = "awaitOptional" -> {"L438", "L470"}
    [] step = "awaitAdvanced" -> {"L527", "L550", "L582"}
    [] step \in {"showSummary", "finalAnalysis"} -> {"L251"}
    [] step = "analysisError" -> {"L251", "L621"}
    [] step = "awaitMissingInfo" -> {"L635", "L646"}
    [] OTHER -> {"L682"}

\* C9: a failed classifyIntent request gives {other, null, false}; the target
\* step is the current step, and what the invocation does next is the first
\* call of the current step's case, not the handler's catch block.
C9_ClassifierFailureStaysPut ==
  \A p \in Procs :
    LET i == inv[p]
    IN  /\ (IsSome(i.cls) /\ Get(i.cls).failed) =>
             /\ Get(i.cls).intent = "other"
             /\ Get(i.cls).nextStep = None
             /\ Get(i.cls).resumeWorkflow = FALSE
             /\ Get(i.cls).target = Some(i.c.currentStep)
        /\ \A n \in DOMAIN i.trace :
             (i.trace[n].ev = "failed" /\ i.trace[n].what = "classifyIntent") =>
               /\ n < Len(i.trace)
               /\ i.trace[n + 1].ev = "call"
               /\ i.trace[n + 1].at \in FirstSites(i.c.currentStep)

\* C9's case: at awaitOptional the classification failed and the message is
\* handled by the awaitOptional case.
C9_Witness ==
  \E p \in Procs :
    /\ IsSome(inv[p].cls)
    /\ Get(inv[p].cls).failed
    /\ inv[p].c.currentStep = "awaitOptional"
    /\ inv[p].op = "additionalRequirements"

\* C10 (as claimed): whatever way generateAgentResponse settles, its content
\* is a display text with at least one character.
C10_DisplayTextNeverEmpty ==
  \A p \in Procs : \A n \in DOMAIN Trace(p) :
    (Trace(p)[n].what = "generateAgentResponse" /\ Trace(p)[n].ev \in {"resolved", "failed"}) =>
      (IsSome(Trace(p)[n].arg) /\ Get(Trace(p)[n].arg) # <<>>)

\* The calls of the invocation that rejected, as positions of its trace.
FailedCalls(p) ==
  {n \in DOMAIN Trace(p) : Trace(p)[n].ev = "rejected" /\ Trace(p)[n].what \in MustCatchOps}
\* The invocation added an assistant message after position n of its trace.
AssistantMessageAfter(p, n) ==
  \E m \in DOMAIN Trace(p) :
    m > n /\ Trace(p)[m].ev = "message" /\ Trace(p)[m].what = "assistant"
\* The step ends the invocation.
TurnEnds(p) == inv[p].pc # "idle" /\ inv'[p].pc = "idle"

\* C11: when a call that can reject rejected during a turn, the turn does not
\* end before an assistant message was added to the log after the rejection:
\* the step in which such a call settles never ends the turn, and a later
\* step ends it only if a message was added since the rejection (earlier in
\* the turn, or by the step that ends it).
C11_FailureGetsAMessage ==
  [][\A p \in Procs :
       TurnEnds(p) =>
         /\ ~(inv[p].pc = "call" /\ inv[p].op \in MustCatchOps)
         /\ \A n \in FailedCalls(p) :
              \/ AssistantMessageAfter(p, n)
              \/ /\ Len(messages') > Len(messages)
                 /\ messages'[Len(messages')].type = "assistant"]_vars

\* C11's case: additionalRequirements rejected at awaitOptional and the
\* message of the catch block is being streamed.
C11_Witness ==
  \E p \in Procs :
    /\ inv[p].pc = "stream"
    /\ inv[p].at = "L505"
    /\ \E n \in FailedCalls(p) :
         Trace(p)[n].what = "additionalRequirements" /\ AssistantMessageAfter(p, n)

\* C12 (as claimed): a turn in which a call other than analyzeProducts
\* rejected ends at the step it started from.
C12_StepHeldOnFailure ==
  [][\A p \in Procs :
       (TurnEnds(p) /\ \E n \in FailedCalls(p) : Trace(p)[n].what # "analyzeProducts") =>
         currentStep' = inv[p].c.currentStep]_vars

\* The invocation started at awaitMissingInfo and re-validated the combined
\* text (the call of line 646).
MissingInfoTurn(p) ==
  /\ inv[p].c.currentStep = "awaitMissingInfo"
  /\ \E n \in DOMAIN Trace(p) : Trace(p)[n].ev = "call" /\ Trace(p)[n].at = "L646"
\* The classification that leaves a message to the loop of the missing
\* information: no step suggested, neither product requirements nor a
\* knowledge question, and a text other than yes, y and skip.
LoopClassification(p) ==
  /\ inv[p].c.currentStep = "awaitMissingInfo"
  /\ IsSome(inv[p].cls)
  /\ Get(inv[p].cls).nextStep = None
  /\ Get(inv[p].cls).intent \notin {"productRequirements", "knowledgeQuestion"}
  /\ ~ShortConfirm(inv[p].text)

AnalysisSettled(p, ev) ==
  {n \in DOMAIN Trace(p) : Trace(p)[n].ev = ev /\ Trace(p)[n].what = "analyzeProducts"}

\* C14 (as claimed): a turn that ran performAnalysis ends in one of two ways.
\* If analyzeProducts resolved, the backend's result is stored whole and the
\* step is initialInput; if it rejected, the step is analysisError; either
\* way an assistant message was added after the call settled.
C14_AnalysisEndsOneOfTwoWays ==
  [][\A p \in Procs :
       TurnEnds(p) =>
         /\ \A n \in AnalysisSettled(p, "resolved") :
              /\ analysisResult' \in {Some(a) : a \in AnalysisResults}
              /\ currentStep' = "initialInput"
              /\ AssistantMessageAfter(p, n) \/ Len(messages') > Len(messages)
         /\ \A n \in AnalysisSettled(p, "rejected") :
              /\ currentStep' = "analysisError"
              /\ AssistantMessageAfter(p, n) \/ Len(messages') > Len(messages)]_vars

\* The lines at which performAnalysis awaits.
AnalysisSites == {"L251", "L258", "L271"}
\* The description the invocation submitted to analyzeProducts.
Submitted(p) ==
  {Trace(p)[n].arg : n \in {m \in DOMAIN Trace(p) :
                              Trace(p)[m].ev = "call" /\ Trace(p)[m].at = "L251"}}

\* C15 (as claimed): no step of performAnalysis changes collectedData,
\* productType or requirementSchema; and when a turn's analysis failed and
\* the turn ends at analysisError, the description a rerun will submit (the
\* one composed from what the handler holds from then on) is the description
\* the failed run submitted.
C15_RerunSubmitsTheSame ==
  [][\A p \in Procs :
       /\ (inv[p].at \in AnalysisSites /\ inv'[p] # inv[p]) =>
            UNCHANGED <<collectedData, productType, requirementSchema>>
       /\ (TurnEnds(p) /\ AnalysisSettled(p, "rejected") # {}
              /\ currentStep' = "analysisError") =>
            Submitted(p) = {Description(handler')}]_vars

\* C16 (as claimed): while analyzeProducts is awaited, the description that
\* was submitted to it holds the product type and every field of
\* collectedData that is neither null nor "", advanced parameters merged
\* earlier in the turn included.
C16_DescriptionHasCollectedData ==
  \A p \in Procs :
    (inv[p].pc = "call" /\ inv[p].at = "L251") =>
      Submitted(p) = {[productType |-> productType,
                       fields |-> composeUserDataString(collectedData)]}

\* C17 (as claimed): at most one message is being processed: no submission,
\* by the send button, the Enter key or the timer of the URL input, is
\* accepted while an invocation awaits a request or streams a message.
C17_OneMessageAtATime == Cardinality(InFlight) <= 1

\* The ranked products the view was given, and the ones it shows.
PanelRendered == pure.op = "panel" /\ IsSome(pure.filtered)
GivenRanked == Get(pure.analysisResult).rankedProducts
ShownRanked == Get(pure.filtered).rankedProducts
\* Vendor and product name of each product of a ranking, in order.
Names(products) ==
  [n \in 1..Len(products) |-> <<products[n].vendor, products[n].productName>>]

\* C18: every ranked product the view shows has requirementsMatch true, the
\* n-th one has rank n, and the products shown are products of the given
\* ranking in their original relative order.
C18_ShownRankingIsContiguous ==
  PanelRendered =>
    /\ \A n \in 1..Len(ShownRanked) :
         /\ ShownRanked[n].requirementsMatch = Some(TRUE)
         /\ ShownRanked[n].rank = n
    /\ \E f \in [1..Len(ShownRanked) -> 1..Len(GivenRanked)] :
         /\ \A i, j \in 1..Len(ShownRanked) : i < j => f[i] < f[j]
         /\ \A i \in 1..Len(ShownRanked) :
              Names(ShownRanked)[i] = Names(GivenRanked)[f[i]]

\* C18's case: of two ranked products the first is dropped; the second, to
\* which the backend gave another rank than 1, is shown with rank 1.
C18_Witness ==
  /\ PanelRendered
  /\ Len(GivenRanked) = 2
  /\ Len(ShownRanked) = 1
  /\ Names(ShownRanked)[1] = Names(GivenRanked)[2]
  /\ Names(GivenRanked)[1] # Names(GivenRanked)[2]
  /\ GivenRanked[2].rank # 1
  /\ ShownRanked[1].rank = 1

\* The last of the given vendor matches with the key of a product, if any.
MatchesOf(product) ==
  {m \in 1..Len(Get(pure.analysisResult).vendorMatches) :
     MatchKey(Get(pure.analysisResult).vendorMatches[m]) = MatchKey(product)}
LastMatchOf(product) ==
  Get(pure.analysisResult).vendorMatches[
    CHOOSE m \in MatchesOf(product) : \A n \in MatchesOf(product) : n <= m]
OwnFlagIsTrue(product) == product.requirementsMatch = Some(TRUE)
DecidingFlagIsTrue(product) ==
  IF MatchesOf(product) = {} THEN OwnFlagIsTrue(product)
  ELSE LastMatchOf(product).requirementsMatch = Some(TRUE)

\* C19 (amended): the ranking shown is exactly the subsequence of the given
\* ranked products whose deciding flag is true: the flag of the last vendor
\* match with the same key vendor-productName if there is one, and the
\* product's own flag only if there is none.
C19_VendorMatchFlagDecides ==
  PanelRendered => Names(ShownRanked) = Names(SelectSeq(GivenRanked, DecidingFlagIsTrue))

\* C19's case: a product whose own flag is true is dropped and one whose
\* own flag is false is shown, each because of a vendor match with its key.
C19_Witness ==
  /\ PanelRendered
  /\ Len(GivenRanked) = 2
  /\ OwnFlagIsTrue(GivenRanked[1])
  /\ GivenRanked[2].requirementsMatch = Some(FALSE)
  /\ MatchesOf(GivenRanked[1]) # {}
  /\ MatchesOf(GivenRanked[2]) # {}
  /\ Names(ShownRanked) = <<Names(GivenRanked)[2]>>
  /\ Names(GivenRanked)[1] # Names(GivenRanked)[2]

\* C19 (as claimed): the ranking shown is exactly the subsequence of the
\* given ranked products whose own flag is true, whatever the flags of the
\* vendor matches.
C19_OwnFlagDecides ==
  PanelRendered => Names(ShownRanked) = Names(SelectSeq(GivenRanked, OwnFlagIsTrue))

\* C20 (as claimed): when no ranked product is left after the filtering the
\* view never renders the results with their (empty) ranking list, also
\* when vendor matches are left.
C20_NoEmptyResultsList ==
  (pure.op = "panel") =>
    ((~IsSome(pure.filtered) \/ Len(ShownRanked) = 0) => pure.view # "results")

\* C21 (as claimed): a lookup that failed left an empty list under its own
\* key only, and once no lookup is in flight the map holds an entry for
\* every matched product of the latest analysis result, whatever the order
\* in which the lookups of this and of earlier batches settled.
C21_MapCoversLatestResult ==
  (pure.op = "lookups" /\ pure.batches = <<>> /\ IsSome(pure.analysisResult)) =>
    \A n \in 1..Len(matchedProducts(Get(pure.analysisResult))) :
      MatchKey(matchedProducts(Get(pure.analysisResult))[n]) \in DOMAIN pure.priceReviewMap

\* C22 (as claimed): no step is a dead end: whenever loading has ended, in
\* whatever step the session is, a further user message can be submitted.
C22_NoDeadEnd == (turns > 0 /\ ~isLoading) => ~InputDisabled

\* The messages of a log.
Entries(log) == {log[n] : n \in DOMAIN log}

\* The message an invocation is streaming.
Streamed(p) == CHOOSE m \in Entries(messages) : m.id = inv[p].stream.id

\* C23: while an assistant message is streamed its content is the prefix of
\* the target text written so far; a step adds at most one character to a
\* message; when the stream ends the content is the whole target text and
\* the streaming flag is cleared; and every stream ends.
C23_StreamWritesPrefixesAndEnds ==
  /\ [](\A p \in Procs : inv[p].pc = "stream" =>
          /\ \E m \in Entries(messages) : m.id = inv[p].stream.id
          /\ Streamed(p).type = "assistant"
          /\ inv[p].stream.i \in 1..Len(inv[p].stream.fullText)
          /\ Streamed(p).content =
               SubSeq(inv[p].stream.fullText, 1, inv[p].stream.i))
  /\ [][\A p \in Procs :
         /\ (inv[p].pc = "stream" /\ inv'[p].pc = "stream") =>
              inv'[p].stream.i \in {inv[p].stream.i, inv[p].stream.i + 1}
         /\ (inv[p].pc = "stream" /\ inv'[p].pc # "stream") =>
              /\ Streamed(p) \in Entries(messages')
              /\ Streamed(p).content = inv[p].stream.fullText
              /\ ~isStreaming']_vars
  /\ \A p \in Procs : (inv[p].pc = "stream") ~> (inv[p].pc = "run")

\* C23's case: a text of three characters has been streamed to its end while
\* another stream is still half way.
C23_Witness ==
  /\ inv[1].pc = "run"
  /\ \E m \in Entries(messages) : Len(m.content) = MaxStreamLen
  /\ inv[2].pc = "stream"
  /\ inv[2].stream.i = 2
  /\ Len(inv[2].stream.fullText) = 3

\* The log a step starts from: the step that accepts a message while nothing
\* is in flight starts from the log since then.
LogBefore == IF turns' # turns THEN Forgetful(World).messages ELSE messages

RetryDispatch(p) ==
  /\ inv[p].pc = "call"
  /\ inv[p].op = "classifyIntent"
  /\ inv[p].c.currentStep = "analysisError"
  /\ IsSome(inv'[p].cls)
  /\ Get(inv'[p].cls).intent # "knowledgeQuestion"
  /\ Get(inv'[p].cls).target = Some("analysisError")
\* The turn asked for the prompt of line 621.
PromptTurn(p) ==
  \E n \in DOMAIN Trace(p) : Trace(p)[n].ev = "call" /\ Trace(p)[n].at = "L621"

\* C25: at analysisError, when the classifier does not send the message
\* elsewhere, an input that is rerun, run or run again (case and whitespace
\* ignored) calls analyzeProducts and any other input asks for the prompt
\* instead; a turn that asked for the prompt made no analyze call, added an
\* assistant message (by its last step at the latest) and ends at
\* analysisError; and a rerun whose completion
\* message was streamed to its end ends at initialInput.
C25_RetryLoop ==
  [][\A p \in Procs :
       /\ RetryDispatch(p) =>
            /\ inv'[p].pc = "call"
            /\ IF Normalize(inv[p].text) \in {WordRerun, WordRun, WordRunAgain}
               THEN inv'[p].op = "analyzeProducts" /\ inv'[p].at = "L251"
               ELSE inv'[p].op = "generateAgentResponse" /\ inv'[p].at = "L621"
       /\ (TurnEnds(p) /\ PromptTurn(p)) =>
            /\ \A n \in DOMAIN Trace(p) : Trace(p)[n].what # "analyzeProducts"
            /\ \/ \E n \in DOMAIN Trace(p) :
                    Trace(p)[n].ev = "message" /\ Trace(p)[n].what = "assistant"
               \/ /\ Len(messages') > Len(messages)
                  /\ messages'[Len(messages')].type = "assistant"
            /\ currentStep' = "analysisError"
       /\ (/\ TurnEnds(p)
           /\ inv[p].c.currentStep = "analysisError"
           /\ inv[p].pc = "stream"
           /\ inv[p].at = "L258") =>
            currentStep' = "initialInput"]_vars

\* C25's case: at analysisError the user typed "run again", the analysis
\* resolved and the last character of the completion message is written.
C25_Witness ==
  \E p \in Procs :
    /\ inv[p].c.currentStep = "analysisError"
    /\ inv[p].text = InputRunAgain
    /\ inv[p].pc = "stream"
    /\ inv[p].at = "L258"
    /\ inv[p].stream.i = Len(inv[p].stream.fullText)

\* The turn started at awaitOptional and was handled by the awaitOptional
\* case.
OptionalTurn(p) ==
  /\ inv[p].c.currentStep = "awaitOptional"
  /\ \E n \in DOMAIN Trace(p) :
       Trace(p)[n].ev = "call" /\ Trace(p)[n].at \in {"L438", "L470"}
\* The positions of the trace where discoverAdvancedParameters settled as ev.
DiscoverySettled(p, ev) ==
  {n \in DOMAIN Trace(p) :
     Trace(p)[n].ev = ev /\ Trace(p)[n].what = "discoverAdvancedParameters"}

\* C26 (as claimed): a turn handled by the awaitOptional case that ends with
\* step awaitAdvanced called discoverAdvancedParameters, the call resolved
\* and its result for the product type is stored; and a turn in which the
\* discovery call failed ends with step awaitOptional.
C26_AdvancedOnlyAfterDiscovery ==
  [][\A p \in Procs :
       (TurnEnds(p) /\ OptionalTurn(p)) =>
         /\ currentStep' = "awaitAdvanced" =>
              /\ DiscoverySettled(p, "resolved") # {}
              /\ IsSome(advancedParameters')
              /\ Get(advancedParameters').productType = inv[p].c.productType
         /\ DiscoverySettled(p, "rejected") # {} =>
              currentStep' = "awaitOptional"]_vars

\* The initialInput case of the turn failed at validateRequirements or at
\* getRequirementSchema.
FailedBeforeStore(p) ==
  \E n \in DOMAIN Trace(p) :
    /\ Trace(p)[n].ev = "catch"
    /\ Trace(p)[n].what = "catch423"
    /\ Trace(p)[n].at \in {"L382", "L390"}

\* C27: a turn whose initialInput case failed at validateRequirements or at
\* the schema fetch that follows it ends with collectedData, productType,
\* requirementSchema and validationResult as they were when the turn began.
C27_FailedInitialInputKeepsState ==
  [][\A p \in Procs :
       (TurnEnds(p) /\ FailedBeforeStore(p)) =>
         /\ collectedData' = inv[p].c.collectedData
         /\ productType' = inv[p].c.productType
         /\ requirementSchema' = inv[p].c.requirementSchema
         /\ validationResult' = inv[p].c.validationResult]_vars

\* C27's case: with requirements collected in an earlier turn, the schema
\* fetch of a new initialInput turn was rejected and the error message is
\* being streamed.
C27_Witness ==
  \E p \in Procs :
    /\ inv[p].c.collectedData # EmptyObject
    /\ IsSome(inv[p].c.requirementSchema)
    /\ \E n \in DOMAIN Trace(p) :
         Trace(p)[n].ev = "rejected" /\ Trace(p)[n].what = "getRequirementSchema"
    /\ inv[p].pc = "stream"
    /\ inv[p].at = "L423"

\* C28 (as claimed): whenever addAdvancedParameters is called, the candidate
\* names it is given were discovered for the product type that is current at
\* that moment (the one the call is made for).
C28_CandidatesOfCurrentProductType ==
  \A p \in Procs :
    (inv[p].pc = "call" /\ inv[p].at = "L550") =>
      /\ IsSome(inv[p].c.advancedParameters)
      /\ Get(inv[p].c.advancedParameters).productType = inv[p].c.productType
      /\ Get(inv[p].c.advancedParameters).productType = productType

\* C29 (as claimed): every accepted message gets a reply: when a turn ends,
\* the invocation has added an assistant message to the log, in an earlier
\* step or in the step that ends it.
C29_EveryMessageGetsAReply ==
  [][\A p \in Procs :
       TurnEnds(p) =>
         \/ \E n \in DOMAIN Trace(p) :
              Trace(p)[n].ev = "message" /\ Trace(p)[n].what = "assistant"
         \/ /\ Len(messages') > Len(messages)
            /\ messages'[Len(messages')].type = "assistant"]_vars

\* What an invocation that has not ended waits for.
Awaited == {"classifyIntent", "generateAgentResponse"} \cup MustCatchOps

\* C30: every turn terminates cleanly: an invocation that has not ended
\* awaits a call or a timer; the step that ends a turn leaves isLoading and
\* isStreaming false, whatever the branch and whatever the backend answered;
\* and when every call is answered or fails and every timer fires, every
\* accepted message reaches that end.
C30_TurnsTerminateCleanly ==
  /\ [](\A p \in Procs :
          \/ inv[p].pc = "idle"
          \/ inv[p].pc = "stream"
          \/ inv[p].pc = "call" /\ inv[p].op \in Awaited)
  /\ [][\A p \in Procs : TurnEnds(p) => (~isLoading' /\ ~isStreaming')]_vars
  /\ \A p \in Procs :
       (inv[p].pc # "idle") ~> (inv[p].pc = "idle" /\ ~isLoading /\ ~isStreaming)

\* C30's case: an answer without display text made streamAssistantMessage
\* throw after it had set isStreaming, and the turn goes on in a catch block.
C30_Witness ==
  \E p \in Procs :
    /\ isStreaming
    /\ isLoading
    /\ inv[p].pc = "call"
    /\ Trace(p)[Len(Trace(p)) - 1].ev = "catch"
    /\ Trace(p)[Len(Trace(p)) - 2].ev = "throw"

====
